---- MODULE Spec2Model ----
(***************************************************************************)
(* Outfit recommendation engine of src/src/lib/recommendations.ts.        *)
(*                                                                         *)
(* Numbers: every score of the engine is a rational whose denominator      *)
(* divides 6000 for outfits of 1..6 items, so a score s is held as the     *)
(* integer s * Scale.  1.0 is Scale, 0.95 is Pct(95), 0.05 is Pct(5).      *)
(* Strings that are sorted or joined (item ids) are sequences of UTF-16    *)
(* code units; strings that are only compared for equality are strings.    *)
(***************************************************************************)
EXTENDS Integers, Sequences, FiniteSets, TLC

VARIABLES
    wardrobe,   \* the caller's array of ClothingItem (wardrobeItems)
    occasion,   \* the occasion argument
    options,    \* the options argument of generateOutfitRecommendations
    now,        \* Date.now() at the call, in days
    pc,         \* "ready" before the call, "done" after it
    call,       \* which entry point ran, with its maxSuggestions
    generated,  \* per skeleton, the list generateCombinations returned
    ranked,     \* scoredOutfits after its sort
    result      \* the returned OutfitRecommendation[]

vars == <<wardrobe, occasion, options, now, pc, call, generated, ranked, result>>

----------------------------------------------------------------------------
(* Arithmetic *)

Scale == 60 * 100

Pct(p) == p * (Scale \div 100)

Min(a, b) == IF a <= b THEN a ELSE b

Max(a, b) == IF a >= b THEN a ELSE b

(* Array.prototype.includes *)
Includes(arr, x) == \E i \in DOMAIN arr : arr[i] = x

(* TRUE, once TLC has computed the sequence arr *)
Computed(arr) == Len(arr) >= 0

RECURSIVE SumSeq(_)
SumSeq(arr) == IF arr = <<>> THEN 0 ELSE Head(arr) + SumSeq(Tail(arr))

----------------------------------------------------------------------------
(* Enumerations of src/types as used by the engine *)

ColorFamily ==
    {"black", "white", "gray", "navy", "blue", "red", "green", "yellow",
     "orange", "purple", "pink", "brown", "beige", "multi"}

StyleType == {"casual", "business", "elegant", "sporty", "trendy"}

Occasion == {"casual", "work", "date", "formal", "party"}

ClothingCategory ==
    {"tops", "bottoms", "dresses", "outerwear", "shoes", "accessories"}

Season == {"spring", "summer", "fall", "winter", "all-season"}

----------------------------------------------------------------------------
(* Static tables *)

COLOR_HARMONY_MATRIX ==
    [c \in ColorFamily |->
       CASE c = "black" ->
              [complementary |-> <<"white", "gray">>,
               compatible |-> <<"red", "blue", "pink", "yellow", "green", "purple", "orange">>,
               avoid |-> <<"brown">>]
         [] c = "white" ->
              [complementary |-> <<"black", "navy">>,
               compatible |-> <<"blue", "red", "green", "pink", "purple", "orange", "yellow">>,
               avoid |-> <<"beige">>]
         [] c = "gray" ->
              [complementary |-> <<"black", "white">>,
               compatible |-> <<"red", "blue", "pink", "yellow", "green", "purple", "orange">>,
               avoid |-> <<>>]
         [] c = "navy" ->
              [complementary |-> <<"white", "beige">>,
               compatible |-> <<"red", "pink", "yellow", "gray">>,
               avoid |-> <<"black", "brown">>]
         [] c = "blue" ->
              [complementary |-> <<"orange", "yellow">>,
               compatible |-> <<"white", "gray", "navy", "beige">>,
               avoid |-> <<"green", "purple">>]
         [] c = "red" ->
              [complementary |-> <<"green", "white">>,
               compatible |-> <<"black", "gray", "navy", "beige">>,
               avoid |-> <<"orange", "pink">>]
         [] c = "green" ->
              [complementary |-> <<"red", "pink">>,
               compatible |-> <<"beige", "brown", "white", "navy">>,
               avoid |-> <<"blue", "purple">>]
         [] c = "yellow" ->
              [complementary |-> <<"purple", "blue">>,
               compatible |-> <<"white", "gray", "black", "navy">>,
               avoid |-> <<"orange", "green">>]
         [] c = "orange" ->
              [complementary |-> <<"blue", "navy">>,
               compatible |-> <<"white", "black", "brown", "beige">>,
               avoid |-> <<"red", "pink">>]
         [] c = "purple" ->
              [complementary |-> <<"yellow", "green">>,
               compatible |-> <<"white", "gray", "black">>,
               avoid |-> <<"red", "orange">>]
         [] c = "pink" ->
              [complementary |-> <<"green", "navy">>,
               compatible |-> <<"white", "gray", "black", "beige">>,
               avoid |-> <<"red", "orange">>]
         [] c = "brown" ->
              [complementary |-> <<"blue", "green">>,
               compatible |-> <<"beige", "white", "orange", "yellow">>,
               avoid |-> <<"black", "purple">>]
         [] c = "beige" ->
              [complementary |-> <<"navy", "brown">>,
               compatible |-> <<"white", "blue", "green", "pink">>,
               avoid |-> <<"yellow">>]
         [] c = "multi" ->
              [complementary |-> <<"black", "white">>,
               compatible |-> <<"gray", "navy", "beige">>,
               avoid |-> <<>>]]

OCCASION_STYLE_MAP ==
    [o \in Occasion |->
       CASE o = "work" ->
              [preferred |-> <<"business", "elegant">>,
               acceptable |-> <<"casual">>,
               avoid |-> <<"sporty", "trendy">>]
         [] o = "casual" ->
              [preferred |-> <<"casual", "sporty">>,
               acceptable |-> <<"trendy">>,
               avoid |-> <<"business", "elegant">>]
         [] o = "date" ->
              [preferred |-> <<"elegant", "trendy">>,
               acceptable |-> <<"casual">>,
               avoid |-> <<"sporty", "business">>]
         [] o = "formal" ->
              [preferred |-> <<"elegant", "business">>,
               acceptable |-> <<>>,
               avoid |-> <<"casual", "sporty", "trendy">>]
         [] o = "party" ->
              [preferred |-> <<"trendy", "elegant">>,
               acceptable |-> <<"casual">>,
               avoid |-> <<"business", "sporty">>]]

OUTFIT_COMBINATIONS ==
    << [required |-> <<"tops", "bottoms", "shoes">>,
        optional |-> <<"accessories", "outerwear">>,
        weight |-> Pct(100)],
       [required |-> <<"dresses", "shoes">>,
        optional |-> <<"accessories", "outerwear">>,
        weight |-> Pct(100)],
       [required |-> <<"tops", "bottoms", "shoes", "outerwear">>,
        optional |-> <<"accessories">>,
        weight |-> Pct(90)] >>

(* Math.min(currentList.length, 5) *)
MaxItemsPerCategory == 5

(* generateCombinations(groups, combinationType, 100) *)
MaxCombinations == 100

(* maxRecommendations = 10 *)
DefaultMaxRecommendations == 10

(* maxSuggestions: number = 3 *)
DefaultMaxSuggestions == 3

----------------------------------------------------------------------------
(* Scoring models *)

(* Mutant of calculateColorHarmony: a color in no list of the profile gets *)
(* the score of a color without profile                                    *)
calculateColorHarmonyNeutralHalf(item1, item2) ==
    LET color1 == item1.primaryColor
        color2 == item2.primaryColor
    IN  IF color1 = color2 THEN Pct(100)
        ELSE LET harmony == COLOR_HARMONY_MATRIX[color1]
             IN  IF Includes(harmony.complementary, color2) THEN Pct(95)
                 ELSE IF Includes(harmony.compatible, color2) THEN Pct(80)
                 ELSE IF Includes(harmony.avoid, color2) THEN Pct(20)
                 ELSE Pct(50)

(* Mutant of calculateColorHarmony: a color in no list of color1's profile *)
(* is looked up the other way round, in color2's profile                   *)
calculateColorHarmonyEitherWay(item1, item2) ==
    LET color1 == item1.primaryColor
        color2 == item2.primaryColor
        Look(a, b) ==
            LET harmony == COLOR_HARMONY_MATRIX[a]
            IN  IF Includes(harmony.complementary, b) THEN Pct(95)
                ELSE IF Includes(harmony.compatible, b) THEN Pct(80)
                ELSE IF Includes(harmony.avoid, b) THEN Pct(20)
                ELSE Pct(60)
    IN  IF color1 = color2 THEN Pct(100)
        ELSE IF Look(color1, color2) # Pct(60) THEN Look(color1, color2)
        ELSE Look(color2, color1)

calculateColorHarmony(item1, item2) ==
    LET color1 == item1.primaryColor
        color2 == item2.primaryColor
    IN  IF color1 = color2 THEN Pct(100)
        ELSE IF color1 \notin DOMAIN COLOR_HARMONY_MATRIX THEN Pct(50)
        ELSE LET harmony == COLOR_HARMONY_MATRIX[color1]
             IN  IF Includes(harmony.complementary, color2) THEN Pct(95)
                 ELSE IF Includes(harmony.compatible, color2) THEN Pct(80)
                 ELSE IF Includes(harmony.avoid, color2) THEN Pct(20)
                 ELSE Pct(60)

(* Mutant of itemStyleScore: without the branch of the acceptable styles *)
itemStyleScoreNoAcceptable(item, occ) ==
    LET styleMap == OCCASION_STYLE_MAP[occ]
    IN  IF Includes(styleMap.preferred, item.style) THEN Pct(100)
        ELSE IF Includes(styleMap.avoid, item.style) THEN Pct(20)
        ELSE Pct(50)

(* Mutant of itemStyleScore: without the test of the avoid bucket *)
itemStyleScoreNoAvoid(item, occ) ==
    LET styleMap == OCCASION_STYLE_MAP[occ]
    IN  IF Includes(styleMap.preferred, item.style) THEN Pct(100)
        ELSE IF Includes(styleMap.acceptable, item.style) THEN Pct(70)
        ELSE Pct(50)

itemStyleScore(item, occ) ==
    LET styleMap == OCCASION_STYLE_MAP[occ]
    IN  IF Includes(styleMap.preferred, item.style) THEN Pct(100)
        ELSE IF Includes(styleMap.acceptable, item.style) THEN Pct(70)
        ELSE IF Includes(styleMap.avoid, item.style) THEN Pct(20)
        ELSE Pct(50)

calculateStyleScore(items, occ) ==
    LET totalScore == SumSeq([i \in DOMAIN items |-> itemStyleScore(items[i], occ)])
        itemCount == Len(items)
    IN  IF itemCount > 0 THEN totalScore \div itemCount ELSE 0

(* Mutant of calculateOutfitColorHarmony: the later item of a pair is the  *)
(* one whose profile is looked up                                          *)
calculateOutfitColorHarmonyLaterFirst(items) ==
    IF Len(items) < 2 THEN Pct(100)
    ELSE LET pairs == {p \in (DOMAIN items) \X (DOMAIN items) : p[1] < p[2]}
             pairSeq == [i \in DOMAIN items |->
                           SumSeq([j \in DOMAIN items |->
                              IF i < j THEN calculateColorHarmony(items[j], items[i])
                              ELSE 0])]
         IN  SumSeq(pairSeq) \div Cardinality(pairs)

calculateOutfitColorHarmony(items) ==
    IF Len(items) < 2 THEN Pct(100)
    ELSE LET pairs == {p \in (DOMAIN items) \X (DOMAIN items) : p[1] < p[2]}
             pairSeq == [i \in DOMAIN items |->
                           SumSeq([j \in DOMAIN items |->
                              IF i < j THEN calculateColorHarmony(items[i], items[j])
                              ELSE 0])]
             totalHarmony == SumSeq(pairSeq)
             pairCount == Cardinality(pairs)
         IN  IF pairCount > 0 THEN totalHarmony \div pairCount ELSE Pct(100)

----------------------------------------------------------------------------
(* Filtering and grouping *)

NoSeason == "none"

(* Mutant of filterBySeasonality: the filtered list is not what is returned *)
filterBySeasonalityDiscarded(items, season) == items

filterBySeasonality(items, season) ==
    IF season = NoSeason THEN items
    ELSE SelectSeq(items, LAMBDA item :
            Includes(item.season, season) \/ Includes(item.season, "all-season"))

groupItemsByCategory(items) ==
    [cat \in ClothingCategory |->
        SelectSeq(items, LAMBDA item : item.category = cat)]

----------------------------------------------------------------------------
(* Combination generator *)

(* Mutant of maxItemsOf: no limit of items per category *)
maxItemsUnlimited(currentList) == Len(currentList)

(* Mutant of maxItemsOf: a limit of six items per category *)
maxItemsOfSix(currentList) == Min(Len(currentList), MaxItemsPerCategory + 1)

(* maxItems = Math.min(currentList.length, 5) *)
maxItemsOf(currentList) == Min(Len(currentList), MaxItemsPerCategory)

RECURSIVE generateRecursive(_, _, _, _, _)
RECURSIVE generateLoop(_, _, _, _, _, _)

(* Mutant of generateRecursive: without the return at maxCombinations *)
generateRecursiveUncapped(requiredLists, maxCombinations, currentOutfit, listIndex, combinations) ==
    IF listIndex > Len(requiredLists) THEN Append(combinations, currentOutfit)
    ELSE generateLoop(requiredLists, maxCombinations, currentOutfit, listIndex, 1, combinations)

(* One call of the closure generateRecursive(currentOutfit, listIndex);    *)
(* combinations is the array it pushes to, returned as it stands after.    *)
generateRecursive(requiredLists, maxCombinations, currentOutfit, listIndex, combinations) ==
    IF Len(combinations) >= maxCombinations THEN combinations
    ELSE IF listIndex > Len(requiredLists) THEN Append(combinations, currentOutfit)
    ELSE generateLoop(requiredLists, maxCombinations, currentOutfit, listIndex, 1, combinations)

(* Mutant of generateLoop: without the test for an item of that id in the  *)
(* outfit                                                                  *)
generateLoopNoGuard(requiredLists, maxCombinations, currentOutfit, listIndex, i, combinations) ==
    LET currentList == requiredLists[listIndex]
        maxItems == maxItemsOf(currentList)
    IN  IF i > maxItems THEN combinations
        ELSE LET item == currentList[i]
                 after ==
                    generateRecursive(requiredLists, maxCombinations,
                                      Append(currentOutfit, item), listIndex + 1,
                                      combinations)
             IN  IF Computed(after)
                 THEN generateLoop(requiredLists, maxCombinations, currentOutfit,
                                   listIndex, i + 1, after)
                 ELSE after

(* The for loop of generateRecursive from index i on *)
generateLoop(requiredLists, maxCombinations, currentOutfit, listIndex, i, combinations) ==
    LET currentList == requiredLists[listIndex]
        maxItems == maxItemsOf(currentList)
    IN  IF i > maxItems THEN combinations
        ELSE LET item == currentList[i]
                 after ==
                    IF ~ \E k \in DOMAIN currentOutfit : currentOutfit[k].id = item.id
                    THEN generateRecursive(requiredLists, maxCombinations,
                                           Append(currentOutfit, item), listIndex + 1,
                                           combinations)
                    ELSE combinations
             IN  IF Computed(after)
                 THEN generateLoop(requiredLists, maxCombinations, currentOutfit,
                                   listIndex, i + 1, after)
                 ELSE after

(* Mutant of generateCombinations: returns early only when every required  *)
(* category is without items                                               *)
generateCombinationsSkipIfNone(groups, combination, maxCombinations) ==
    LET requiredLists ==
            SelectSeq([k \in DOMAIN combination.required |-> groups[combination.required[k]]],
                      LAMBDA list : Len(list) > 0)
    IN  IF Len(requiredLists) = 0 THEN <<>>
        ELSE generateRecursive(requiredLists, maxCombinations, <<>>, 1, <<>>)

(* Mutant of generateCombinations: only the first three required categories *)
(* of a skeleton count                                                      *)
generateCombinationsFirstThree(groups, combination, maxCombinations) ==
    LET required == SubSeq(combination.required, 1, Min(3, Len(combination.required)))
        requiredLists ==
            SelectSeq([k \in DOMAIN required |-> groups[required[k]]],
                      LAMBDA list : Len(list) > 0)
    IN  IF Len(requiredLists) # Len(required) THEN <<>>
        ELSE generateRecursive(requiredLists, maxCombinations, <<>>, 1, <<>>)

(* generateCombinations *)
generateCombinations(groups, combination, maxCombinations) ==
    LET requiredLists ==
            SelectSeq([k \in DOMAIN combination.required |-> groups[combination.required[k]]],
                      LAMBDA list : Len(list) > 0)
    IN  IF Len(requiredLists) # Len(combination.required) THEN <<>>
        ELSE generateRecursive(requiredLists, maxCombinations, <<>>, 1, <<>>)

----------------------------------------------------------------------------
(* Library calls: Array.prototype.sort, Array.prototype.join *)

(* Array.prototype.sort(compareFn), stable since ES2019: before[i][j] is    *)
(* compareFn(arr[i], arr[j]) < 0.  An element's place is the number of      *)
(* elements that go before it: those that compare before it, and of those   *)
(* that compare equal to it the ones at a smaller index.  (\o <<>> leaves a *)
(* sequence as it is; TLC then holds it as a tuple instead of recomputing   *)
(* elements.)                                                               *)
StableSort(arr, before) ==
    LET n == Len(arr)
        a == arr \o <<>>
        rank == [i \in 1..n |->
                   Cardinality({j \in 1..n :
                       \/ before[j][i]
                       \/ ~ before[i][j] /\ j < i}) + 1] \o <<>>
        at == [k \in 1..n |-> CHOOSE i \in 1..n : rank[i] = k]
    IN  [k \in 1..n |-> a[at[k]]] \o <<>>

(* The default sort order of strings: by UTF-16 code units *)
StrLess(s, t) ==
    \E k \in 1..(Min(Len(s), Len(t)) + 1) :
        /\ \A m \in 1..(k - 1) : s[m] = t[m]
        /\ \/ k > Len(s) /\ k <= Len(t)
           \/ k <= Len(s) /\ k <= Len(t) /\ s[k] < t[k]

(* The separator '-' of the combination key *)
Dash == <<45>>

RECURSIVE Join(_, _)
Join(strs, sep) ==
    IF strs = <<>> THEN <<>>
    ELSE IF Len(strs) = 1 THEN strs[1]
    ELSE strs[1] \o sep \o Join(Tail(strs), sep)

RECURSIVE JoinText(_, _)
JoinText(strs, sep) ==
    IF strs = <<>> THEN ""
    ELSE IF Len(strs) = 1 THEN strs[1]
    ELSE strs[1] \o sep \o JoinText(Tail(strs), sep)

----------------------------------------------------------------------------
(* Outfit scorer *)

(* Mutant of generateOutfitReasoning: the color clause before the style clause *)
generateOutfitReasoningColorFirst(items, occ, styleScore, colorHarmony) ==
    LET style ==
            IF styleScore >= Pct(80)
            THEN <<"Perfect " \o occ \o " styling with well-coordinated pieces">>
            ELSE IF styleScore >= Pct(60)
            THEN <<"Good fit for " \o occ \o " with versatile styling">>
            ELSE <<>>
        color ==
            IF colorHarmony >= Pct(85) THEN <<"Excellent color coordination">>
            ELSE IF colorHarmony >= Pct(70) THEN <<"Good color harmony">>
            ELSE <<>>
        favorites == SelectSeq(items, LAMBDA item : item.isFavorite)
        fav ==
            IF Len(favorites) > 0
            THEN <<"Includes " \o ToString(Len(favorites)) \o " of your favorite pieces">>
            ELSE <<>>
        unworn == SelectSeq(items, LAMBDA item : item.wearCount = 0)
        fresh ==
            IF Len(unworn) > 0
            THEN <<"Features " \o ToString(Len(unworn)) \o " fresh pieces from your wardrobe">>
            ELSE <<>>
        reasons == color \o style \o fav \o fresh
    IN  IF Len(reasons) > 0 THEN JoinText(reasons, ". ") \o "."
        ELSE "Solid outfit combination for the occasion."

(* generateOutfitReasoning *)
generateOutfitReasoning(items, occ, styleScore, colorHarmony) ==
    LET style ==
            IF styleScore >= Pct(80)
            THEN <<"Perfect " \o occ \o " styling with well-coordinated pieces">>
            ELSE IF styleScore >= Pct(60)
            THEN <<"Good fit for " \o occ \o " with versatile styling">>
            ELSE <<>>
        color ==
            IF colorHarmony >= Pct(85) THEN <<"Excellent color coordination">>
            ELSE IF colorHarmony >= Pct(70) THEN <<"Good color harmony">>
            ELSE <<>>
        favorites == SelectSeq(items, LAMBDA item : item.isFavorite)
        fav ==
            IF Len(favorites) > 0
            THEN <<"Includes " \o ToString(Len(favorites)) \o " of your favorite pieces">>
            ELSE <<>>
        unworn == SelectSeq(items, LAMBDA item : item.wearCount = 0)
        fresh ==
            IF Len(unworn) > 0
            THEN <<"Features " \o ToString(Len(unworn)) \o " fresh pieces from your wardrobe">>
            ELSE <<>>
        reasons == style \o color \o fav \o fresh
    IN  IF Len(reasons) > 0 THEN JoinText(reasons, ". ") \o "."
        ELSE "Solid outfit combination for the occasion."

(* colorPreferenceBonus *)
colorPreferenceBonus(items, preferredColors) ==
    IF Len(preferredColors) > 0
    THEN LET hasPreferredColor ==
                \E i \in DOMAIN items :
                    \/ Includes(preferredColors, items[i].primaryColor)
                    \/ \E c \in DOMAIN items[i].colors :
                           Includes(preferredColors, items[i].colors[c])
         IN  IF hasPreferredColor THEN Pct(10) ELSE 0
    ELSE 0

(* freshnessBonus: Math.max(0, (10 - avgWearCount) / 10 * 0.1), with       *)
(* avgWearCount the sum of the wear counts over items.length               *)
freshnessBonus(items) ==
    LET wearSum == SumSeq([i \in DOMAIN items |-> items[i].wearCount])
    IN  Max(0, ((10 * Len(items) - wearSum) * Pct(1)) \div Len(items))

(* Mutant of favoriteBonus: every item a favourite, where the code asks for some *)
favoriteBonusEvery(items) ==
    IF \A i \in DOMAIN items : items[i].isFavorite THEN Pct(5) ELSE 0

(* favoriteBonus *)
favoriteBonus(items) ==
    IF \E i \in DOMAIN items : items[i].isFavorite THEN Pct(5) ELSE 0

(* Mutant of totalScore: the sum without Math.min(1.0, ...) *)
totalScoreUnclamped(items, styleScore, colorHarmony, preferredColors) ==
    (styleScore * 5 + colorHarmony * 4) \div 10
    + colorPreferenceBonus(items, preferredColors)
    + freshnessBonus(items) + favoriteBonus(items)

(* Mutant of totalScore: times the weight 0.9 of the skeleton with          *)
(* outerwear for an outfit of its 4 items                                  *)
totalScoreWeighted(items, styleScore, colorHarmony, preferredColors) ==
    LET baseScore == (styleScore * 5 + colorHarmony * 4) \div 10
        score == Min(Pct(100),
                     baseScore + colorPreferenceBonus(items, preferredColors)
                               + freshnessBonus(items) + favoriteBonus(items))
    IN  IF Len(items) = 4 THEN (score * 9) \div 10 ELSE score

(* baseScore and totalScore *)
totalScore(items, styleScore, colorHarmony, preferredColors) ==
    LET baseScore == (styleScore * 5 + colorHarmony * 4) \div 10
    IN  Min(Pct(100),
            baseScore + colorPreferenceBonus(items, preferredColors)
                      + freshnessBonus(items) + favoriteBonus(items))

(* Mutant of scoreOutfitCombination: the two scores are handed to          *)
(* generateOutfitReasoning in the other order                              *)
scoreOutfitCombinationScoresSwapped(items, occ, preferredColors) ==
    LET styleScore == calculateStyleScore(items, occ)
        colorHarmony == calculateOutfitColorHarmony(items)
    IN  [items |-> items,
         confidence |-> totalScore(items, styleScore, colorHarmony, preferredColors),
         reasoning |-> generateOutfitReasoning(items, occ, colorHarmony, styleScore),
         styleScore |-> styleScore,
         colorHarmony |-> colorHarmony,
         occasion |-> occ]

scoreOutfitCombination(items, occ, preferredColors) ==
    LET styleScore == calculateStyleScore(items, occ)
        colorHarmony == calculateOutfitColorHarmony(items)
    IN  [items |-> items,
         confidence |-> totalScore(items, styleScore, colorHarmony, preferredColors),
         reasoning |-> generateOutfitReasoning(items, occ, styleScore, colorHarmony),
         styleScore |-> styleScore,
         colorHarmony |-> colorHarmony,
         occasion |-> occ]

----------------------------------------------------------------------------
(* Recommendation engine *)

(* The options after destructuring with its defaults *)
DefaultOptions ==
    [season |-> NoSeason,
     preferredColors |-> <<>>,
     excludeItemIds |-> <<>>,
     includeItemIds |-> <<>>,
     maxRecommendations |-> DefaultMaxRecommendations]

(* Mutant of availableItems: the seasonal filter reads wardrobeItems *)
availableItemsSeasonOfWardrobe(wardrobeItems, opts) ==
    LET kept == SelectSeq(wardrobeItems,
                    LAMBDA item : ~ Includes(opts.excludeItemIds, item.id))
    IN  IF opts.season # NoSeason
        THEN filterBySeasonality(wardrobeItems, opts.season) ELSE kept

(* availableItems after the exclusion and the seasonal filter *)
availableItems(wardrobeItems, opts) ==
    LET kept == SelectSeq(wardrobeItems,
                    LAMBDA item : ~ Includes(opts.excludeItemIds, item.id))
    IN  IF opts.season # NoSeason THEN filterBySeasonality(kept, opts.season) ELSE kept

(* Mutant of includedItems: the included items looked up among the *)
(* available items                                                 *)
includedItemsOfAvailable(wardrobeItems, opts) ==
    IF Len(opts.includeItemIds) > 0
    THEN SelectSeq(availableItems(wardrobeItems, opts),
                   LAMBDA item : Includes(opts.includeItemIds, item.id))
    ELSE <<>>

includedItems(wardrobeItems, opts) ==
    IF Len(opts.includeItemIds) > 0
    THEN SelectSeq(wardrobeItems, LAMBDA item : Includes(opts.includeItemIds, item.id))
    ELSE <<>>

(* Whether the forEach over combinations pushes combo to allCombinations *)
keepsCombination(combo, included) ==
    IF Len(included) > 0
    THEN \A r \in DOMAIN included :
            \E k \in DOMAIN combo : combo[k].id = included[r].id
    ELSE TRUE

(* Mutant of generatedCombinations: the combinations of all the wardrobe's *)
(* items, and of these the ones whose items are all available             *)
generatedCombinationsFilteredAfter(wardrobeItems, opts) ==
    LET groups == groupItemsByCategory(wardrobeItems)
        available == availableItems(wardrobeItems, opts)
    IN  [k \in DOMAIN OUTFIT_COMBINATIONS |->
            SelectSeq(generateCombinations(groups, OUTFIT_COMBINATIONS[k], MaxCombinations),
                      LAMBDA combo : \A n \in DOMAIN combo : Includes(available, combo[n]))]

(* What generateCombinations returns for each entry of OUTFIT_COMBINATIONS *)
generatedCombinations(wardrobeItems, opts) ==
    LET groups == groupItemsByCategory(availableItems(wardrobeItems, opts))
    IN  [k \in DOMAIN OUTFIT_COMBINATIONS |->
            generateCombinations(groups, OUTFIT_COMBINATIONS[k], MaxCombinations)]

RECURSIVE Concat(_)
Concat(lists) == IF lists = <<>> THEN <<>> ELSE Head(lists) \o Concat(Tail(lists))

allCombinations(wardrobeItems, opts) ==
    LET included == includedItems(wardrobeItems, opts)
        gen == generatedCombinations(wardrobeItems, opts)
    IN  Concat([k \in DOMAIN gen |->
                  SelectSeq(gen[k], LAMBDA combo : keepsCombination(combo, included))])

(* Mutant of sortByConfidence: the comparator a.confidence - b.confidence *)
sortByConfidenceAscending(scoredOutfits) ==
    StableSort(scoredOutfits,
               [i \in DOMAIN scoredOutfits |-> [j \in DOMAIN scoredOutfits |->
                   scoredOutfits[i].confidence - scoredOutfits[j].confidence < 0]])

(* Mutant of sortByConfidence: a sort that puts the later of two equal *)
(* confidences first                                                  *)
sortByConfidenceTiesReversed(scoredOutfits) ==
    StableSort(scoredOutfits,
               [i \in DOMAIN scoredOutfits |-> [j \in DOMAIN scoredOutfits |->
                   \/ scoredOutfits[j].confidence - scoredOutfits[i].confidence < 0
                   \/ /\ scoredOutfits[j].confidence = scoredOutfits[i].confidence
                      /\ j < i]])

(* scoredOutfits.sort((a, b) => b.confidence - a.confidence) *)
sortByConfidence(scoredOutfits) ==
    StableSort(scoredOutfits,
               [i \in DOMAIN scoredOutfits |-> [j \in DOMAIN scoredOutfits |->
                   scoredOutfits[j].confidence - scoredOutfits[i].confidence < 0]])

(* Mutant of combinationKey: the ids joined without .sort() *)
combinationKeyUnsorted(items) ==
    Join([i \in DOMAIN items |-> items[i].id], Dash)

(* outfit.items.map(item => item.id).sort().join('-') *)
combinationKey(items) ==
    LET ids == [i \in DOMAIN items |-> items[i].id]
    IN  Join(StableSort(ids, [i \in DOMAIN ids |-> [j \in DOMAIN ids |->
                                  StrLess(ids[i], ids[j])]]), Dash)

(* The body of the for loop over scoredOutfits: state is seenCombinations *)
(* and uniqueOutfits before the iteration, the value those after it        *)
uniqueStep(state, outfit, maxRecommendations) ==
    LET key == combinationKey(outfit.items)
    IN  IF key \notin state.seenCombinations
           /\ Len(state.uniqueOutfits) < maxRecommendations
        THEN [seenCombinations |-> state.seenCombinations \cup {key},
              uniqueOutfits |-> Append(state.uniqueOutfits, outfit)]
        ELSE state

(* The iterations lo .. hi of the for loop, in order: those up to mid,     *)
(* then the rest on the state they leave.  (Halving, and Computed, keep    *)
(* TLC's evaluation shallow; they change no value.)                        *)
RECURSIVE uniqueLoop(_, _, _, _, _)
uniqueLoop(outfits, lo, hi, state, maxRecommendations) ==
    IF lo > hi THEN state
    ELSE IF lo = hi THEN uniqueStep(state, outfits[lo], maxRecommendations)
    ELSE LET mid == (lo + hi) \div 2
             first == uniqueLoop(outfits, lo, mid, state, maxRecommendations)
         IN  IF Computed(first.uniqueOutfits)
             THEN uniqueLoop(outfits, mid + 1, hi, first, maxRecommendations)
             ELSE first

(* scoredOutfits before the sort *)
scoredOutfits(wardrobeItems, occ, opts) ==
    LET all == allCombinations(wardrobeItems, opts)
    IN  [k \in DOMAIN all |-> scoreOutfitCombination(all[k], occ, opts.preferredColors)]

(* scoredOutfits after the sort *)
rankedOutfits(wardrobeItems, occ, opts) ==
    sortByConfidence(scoredOutfits(wardrobeItems, occ, opts))

generateOutfitRecommendations(wardrobeItems, occ, opts) ==
    LET outfits == rankedOutfits(wardrobeItems, occ, opts)
    IN  uniqueLoop(outfits, 1, Len(outfits),
                   [seenCombinations |-> {}, uniqueOutfits |-> <<>>],
                   opts.maxRecommendations).uniqueOutfits

(* Mutant of priorityScore: without the term of the recently added *)
priorityScoreNoRecent(item, today) ==
    (10 - item.wearCount)
    + (IF item.isFavorite THEN 3 ELSE 0)

(* The priority of getQuickOutfitSuggestions' comparator; days are whole *)
priorityScore(item, today) ==
    (10 - item.wearCount)
    + (IF today - item.dateAdded < 7 THEN 5 ELSE 0)
    + (IF item.isFavorite THEN 3 ELSE 0)

(* wardrobeItems.sort(...): sorts the caller's array in place, returns it *)
prioritizedItems(wardrobeItems, today) ==
    StableSort(wardrobeItems,
               [i \in DOMAIN wardrobeItems |-> [j \in DOMAIN wardrobeItems |->
                   priorityScore(wardrobeItems[j], today)
                       - priorityScore(wardrobeItems[i], today) < 0]])

getQuickOutfitSuggestions(wardrobeItems, occ, maxSuggestions, today) ==
    generateOutfitRecommendations(prioritizedItems(wardrobeItems, today), occ,
        [DefaultOptions EXCEPT !.maxRecommendations = maxSuggestions])

----------------------------------------------------------------------------
(* Calls *)

NoCall == [fn |-> "none", maxSuggestions |-> 0]

(* generateOutfitRecommendations(wardrobe, occasion, options) *)
Recommend ==
    /\ pc = "ready"
    /\ result' = generateOutfitRecommendations(wardrobe, occasion, options)
    /\ generated' = generatedCombinations(wardrobe, options)
    /\ ranked' = rankedOutfits(wardrobe, occasion, options)
    /\ call' = [fn |-> "recommend", maxSuggestions |-> 0]
    /\ pc' = "done"
    /\ UNCHANGED <<wardrobe, occasion, options, now>>

(* getQuickOutfitSuggestions(wardrobe, occasion, maxSuggestions) *)
Quick ==
    /\ pc = "ready"
    /\ \E maxSuggestions \in {1, DefaultMaxSuggestions} :
          /\ result' = getQuickOutfitSuggestions(wardrobe, occasion, maxSuggestions, now)
          /\ call' = [fn |-> "quick", maxSuggestions |-> maxSuggestions]
    /\ wardrobe' = prioritizedItems(wardrobe, now)
    /\ generated' = generatedCombinations(wardrobe', DefaultOptions)
    /\ ranked' = rankedOutfits(wardrobe', occasion, DefaultOptions)
    /\ pc' = "done"
    /\ UNCHANGED <<occasion, options, now>>

Next == Recommend \/ Quick

----------------------------------------------------------------------------
(* Inputs *)

Item(id, category, primaryColor, colors, style, season, wearCount, isFavorite, dateAdded) ==
    [id |-> id, category |-> category, primaryColor |-> primaryColor,
     colors |-> colors, style |-> style, season |-> season,
     wearCount |-> wearCount, isFavorite |-> isFavorite, dateAdded |-> dateAdded]

(* Subsequences of list with at most n elements, in the order of list *)
RECURSIVE SubSeqs(_, _)
SubSeqs(list, n) ==
    IF list = <<>> \/ n = 0 THEN {<<>>}
    ELSE SubSeqs(Tail(list), n)
         \cup {<<Head(list)>> \o rest : rest \in SubSeqs(Tail(list), n - 1)}

(* The state before a call *)
Ready(wardrobes, occasions, optionss, nows) ==
    /\ wardrobe \in wardrobes
    /\ occasion \in occasions
    /\ options \in optionss
    /\ now \in nows
    /\ pc = "ready"
    /\ call = NoCall
    /\ generated = <<>>
    /\ ranked = <<>>
    /\ result = <<>>

(* Ids "a" .. "z" and "zz", an id no closet item has *)
IdT1 == <<116, 49>>
IdT2 == <<116, 50>>
IdB1 == <<98, 49>>
IdB2 == <<98, 50>>
IdS1 == <<115, 49>>
IdS2 == <<115, 50>>
IdD1 == <<100, 49>>
IdO1 == <<111, 49>>
IdX1 == <<120, 49>>
IdZZ == <<122, 122>>

(* A closet: every category, seasons, wear counts and favourites vary *)
Closet ==
    << Item(IdT1, "tops", "white", <<"white">>, "business", <<"all-season">>, 0, TRUE, 0),
       Item(IdT2, "tops", "red", <<"red", "white">>, "sporty", <<"summer">>, 12, FALSE, 8),
       Item(IdB1, "bottoms", "navy", <<"navy">>, "business", <<"fall", "winter">>, 3, FALSE, 0),
       Item(IdB2, "bottoms", "black", <<"black">>, "casual", <<"all-season">>, 0, FALSE, 9),
       Item(IdS1, "shoes", "black", <<"black">>, "casual", <<"all-season">>, 5, FALSE, 0),
       Item(IdS2, "shoes", "brown", <<"brown">>, "elegant", <<"summer", "spring">>, 20, TRUE, 0),
       Item(IdD1, "dresses", "red", <<"red">>, "elegant", <<"summer">>, 1, FALSE, 9),
       Item(IdO1, "outerwear", "beige", <<"beige">>, "trendy", <<"winter">>, 2, FALSE, 0),
       Item(IdX1, "accessories", "multi", <<"multi">>, "trendy", <<"all-season">>, 0, TRUE, 0) >>

(* The largest wardrobe drawn from the closet *)
MaxWardrobe == 4

ClosetOptions ==
    {[DefaultOptions EXCEPT !.season = s, !.excludeItemIds = e, !.includeItemIds = i] :
        s \in {NoSeason, "summer", "winter"},
        e \in {<<>>, <<IdT1>>, <<IdS1, IdD1>>},
        i \in {<<>>, <<IdT1>>, <<IdB2, IdS1>>, <<IdZZ>>, <<IdS1, IdZZ>>}}

Init == Ready(SubSeqs(Closet, MaxWardrobe), {"work"}, ClosetOptions, {10})

Spec == Init /\ [][Next]_vars

----------------------------------------------------------------------------
(* Wardrobes of dresses and shoes whose ids repeat and contain '-' *)

IdA == <<97>>
IdC == <<99>>
IdAB == <<97, 45, 98>>
IdBC == <<98, 45, 99>>

IdPool == {IdA, IdC, IdAB, IdBC}

(* The most dresses, and the most shoes, of such a wardrobe *)
MaxPerCategory == 2

(* The ids of dresses: the parts that the shoes' ids are joined from *)
DressIds == {IdA, IdC}

Dresses ==
    {Item(id, "dresses", "red", <<"red">>, "elegant", <<"all-season">>, 0, fav, 0) :
        id \in DressIds, fav \in BOOLEAN}

Shoes ==
    {Item(id, "shoes", "black", <<"black">>, "casual", <<"all-season">>, 2, FALSE, 0) :
        id \in IdPool}

(* Sequences over S of length 0 .. n *)
SeqsUpTo(S, n) == UNION {[1..m -> S] : m \in 0..n}

IdWardrobes ==
    {d \o s : d \in SeqsUpTo(Dresses, MaxPerCategory),
              s \in SeqsUpTo(Shoes, MaxPerCategory)}

IdOptions ==
    {[DefaultOptions EXCEPT !.maxRecommendations = m] :
        m \in {2, DefaultMaxRecommendations}}

InitIds == Ready(IdWardrobes, {"date"}, IdOptions, {10})

SpecIds == InitIds /\ [][Next]_vars

----------------------------------------------------------------------------
(* Wardrobes of one or two outfits whose styles, colours, wear counts and  *)
(* favourites vary                                                         *)

(* A wear count whose average over an outfit can exceed 10 *)
HighWear == 30

Usages ==
    {[wearCount |-> 0, isFavorite |-> TRUE, extra |-> <<>>],
     [wearCount |-> 0, isFavorite |-> FALSE, extra |-> <<"red">>],
     [wearCount |-> HighWear, isFavorite |-> FALSE, extra |-> <<>>],
     [wearCount |-> 4, isFavorite |-> TRUE, extra |-> <<"red">>]}

Variants ==
    {[style |-> st, color |-> co, usage |-> u] :
        st \in {"business", "casual", "sporty"},
        co \in {"white", "black", "brown"},
        u \in Usages}

FewVariants ==
    {v \in Variants :
        \/ v.style = "business" /\ v.color = "white" /\ v.usage.wearCount = 0
        \/ v.style = "sporty" /\ v.color = "brown" /\ v.usage.wearCount > 0}

Varied(id, category, v) ==
    Item(id, category, v.color, <<v.color>> \o v.usage.extra, v.style,
         <<"all-season">>, v.usage.wearCount, v.usage.isFavorite, 0)

ScoreWardrobes ==
    {<<Varied(IdD1, "dresses", d), Varied(IdS1, "shoes", sh)>> :
        d \in Variants, sh \in Variants}
    \cup
    {<<Varied(IdT1, "tops", t), Varied(IdB1, "bottoms", b), Varied(IdS1, "shoes", sh)>> :
        t \in FewVariants, b \in FewVariants, sh \in FewVariants}
    \cup
    {<<Varied(IdD1, "dresses", d), Varied(IdS1, "shoes", s1), Varied(IdS2, "shoes", s2)>> :
        d \in FewVariants, s1 \in FewVariants, s2 \in FewVariants}
    \cup
    {<<Varied(IdT1, "tops", t), Varied(IdB1, "bottoms", b), Varied(IdS1, "shoes", sh),
       Varied(IdO1, "outerwear", o)>> :
        t \in FewVariants, b \in FewVariants, sh \in FewVariants, o \in FewVariants}

ScoreOptions ==
    {[DefaultOptions EXCEPT !.preferredColors = pc0] :
        pc0 \in {<<>>, <<"red">>, <<"white", "navy">>}}

InitScore == Ready(ScoreWardrobes, {"work", "casual", "formal"}, ScoreOptions, {10})

SpecScore == InitScore /\ [][Next]_vars

----------------------------------------------------------------------------
(* Wardrobes with more items in a category than the generator enumerates   *)

MaxTops == 7
MaxBottoms == 6
MaxShoes == 6
MaxOuterwear == 1

(* The id of the n-th item of a category: its letter and the digit n *)
LabelId(letter, n) == <<letter, 48 + n>>

(* The n-th item of a category; wear counts grow along the list *)
Labeled(letter, category, n) ==
    Item(LabelId(letter, n), category,
         IF n % 2 = 1 THEN "white" ELSE "navy", <<"blue">>,
         IF n % 3 = 0 THEN "sporty" ELSE "business",
         <<"all-season">>, n, n = 2, 0)

LabeledList(letter, category, n) == [k \in 1..n |-> Labeled(letter, category, k)]

(* Numbers of items of a category: none, and from below the generator's    *)
(* limit per category up to max                                            *)
CapCounts(max) == {0} \cup ((MaxItemsPerCategory - 2)..max)

CapWardrobes ==
    {LabeledList(116, "tops", t) \o LabeledList(98, "bottoms", b)
        \o LabeledList(115, "shoes", sh) \o LabeledList(111, "outerwear", o) :
        t \in (MaxTops - 1)..MaxTops, b \in CapCounts(MaxBottoms),
        sh \in CapCounts(MaxShoes), o \in 0..MaxOuterwear}

CapOptions ==
    {[DefaultOptions EXCEPT !.excludeItemIds = e] :
        e \in {<<>>, <<LabelId(116, 2)>>}}

InitCap == Ready(CapWardrobes, {"work"}, CapOptions, {10})

SpecCap == InitCap /\ [][Next]_vars

----------------------------------------------------------------------------
(* Claims checked under Spec *)

Returned == pc = "done"

RecommendReturned == pc = "done" /\ call.fn = "recommend"

(* The ids of an outfit's items *)
IdsOf(items) == {items[k].id : k \in DOMAIN items}

(* The wardrobe items a call of recommend may use: not excluded, in season *)
Usable(item) ==
    /\ ~ Includes(options.excludeItemIds, item.id)
    /\ \/ options.season = NoSeason
       \/ Includes(item.season, options.season)
       \/ Includes(item.season, "all-season")

(* C2: when includeItemIds is non-empty, every returned recommendation     *)
(* contains every id listed in includeItemIds, whether or not the id       *)
(* occurs in the wardrobe.                                                 *)
C2_EveryIncludedIdPresent ==
    RecommendReturned /\ Len(options.includeItemIds) > 0
    => \A r \in DOMAIN result :
          \A i \in DOMAIN options.includeItemIds :
              options.includeItemIds[i] \in IdsOf(result[r].items)

(* C7: a call of recommend or quickSuggestions leaves the caller's         *)
(* wardrobe array as it was: the same items in the same order.             *)
C7_WardrobeUntouched == [][wardrobe' = wardrobe]_vars

(* C10: recommend returns the empty list when the wardrobe is empty, when  *)
(* exclusion and season filtering leave no item, when no skeleton has an   *)
(* item for each of its required categories, and when no generated         *)
(* combination contains all the ids of a non-empty includeItemIds.         *)
C10_NoSkeletonSatisfied ==
    \A k \in DOMAIN OUTFIT_COMBINATIONS :
        \E c \in DOMAIN OUTFIT_COMBINATIONS[k].required :
            ~ \E i \in DOMAIN wardrobe :
                /\ Usable(wardrobe[i])
                /\ wardrobe[i].category = OUTFIT_COMBINATIONS[k].required[c]

C10_NothingSurvivesInclude ==
    /\ Len(options.includeItemIds) > 0
    /\ \A k \in DOMAIN generated :
          \A c \in DOMAIN generated[k] :
              \E i \in DOMAIN options.includeItemIds :
                  options.includeItemIds[i] \notin IdsOf(generated[k][c])

C10_EmptyListInEveryEmptyCase ==
    /\ RecommendReturned
    /\ \/ wardrobe = <<>>
       \/ ~ \E i \in DOMAIN wardrobe : Usable(wardrobe[i])
       \/ C10_NoSkeletonSatisfied
       \/ C10_NothingSurvivesInclude
    => result = <<>>

----------------------------------------------------------------------------
(* Claims checked under SpecIds *)

(* The number of different id sets among the candidates ranked before k *)
IdSetsBefore(k) == Cardinality({IdsOf(ranked[j].items) : j \in 1..(k - 1)})

(* C3: a candidate whose id set differs from the id set of every candidate *)
(* ranked before it is not dropped as a duplicate: it is returned whenever  *)
(* fewer than maxRecommendations results precede it.                        *)
C3_NewIdSetIsReturned ==
    RecommendReturned
    => \A k \in DOMAIN ranked :
          /\ \A j \in 1..(k - 1) : IdsOf(ranked[j].items) # IdsOf(ranked[k].items)
          /\ IdSetsBefore(k) < options.maxRecommendations
          => \E r \in DOMAIN result : result[r] = ranked[k]

(* C4: no two returned recommendations have the same set of item ids, and  *)
(* every returned recommendation is the first candidate of the sorted list  *)
(* that has its id set.                                                     *)
C4_OnePerIdSetAndTheFirst ==
    Returned
    => /\ \A r1, r2 \in DOMAIN result :
             r1 # r2 => IdsOf(result[r1].items) # IdsOf(result[r2].items)
       /\ \A r \in DOMAIN result :
             \E k \in DOMAIN ranked :
                /\ ranked[k] = result[r]
                /\ \A j \in 1..(k - 1) :
                      IdsOf(ranked[j].items) # IdsOf(result[r].items)

(* Two candidates with the same ids in a different item order, one kept *)
C4_Witness ==
    /\ RecommendReturned
    /\ \E j, k \in DOMAIN ranked :
          /\ j < k
          /\ IdsOf(ranked[j].items) = IdsOf(ranked[k].items)
          /\ [i \in DOMAIN ranked[j].items |-> ranked[j].items[i].id]
                # [i \in DOMAIN ranked[k].items |-> ranked[k].items[i].id]
          /\ \E r \in DOMAIN result : result[r] = ranked[j]
          /\ ~ \E r \in DOMAIN result : result[r] = ranked[k]

----------------------------------------------------------------------------
(* Claims checked under SpecScore *)

(* The options recommend ran with *)
CallOptions ==
    IF call.fn = "quick"
    THEN [DefaultOptions EXCEPT !.maxRecommendations = call.maxSuggestions]
    ELSE options

(* C5: the returned list is ordered by non-increasing confidence. *)
C5_NonIncreasingConfidence ==
    Returned
    => \A i, j \in DOMAIN result :
          i < j => result[i].confidence >= result[j].confidence

(* The combinations in generation order *)
C5_Generated == Concat(generated)

(* Two results of different confidence, generated in the opposite order *)
C5_Witness ==
    /\ RecommendReturned
    /\ Len(result) >= 2
    /\ result[1].confidence > result[2].confidence
    /\ \E g1, g2 \in DOMAIN C5_Generated :
          /\ g2 < g1
          /\ C5_Generated[g1] = result[1].items
          /\ C5_Generated[g2] = result[2].items

(* The three bonuses as the claim states them *)
C8_ColorColors(item) == {item.primaryColor} \cup {item.colors[c] : c \in DOMAIN item.colors}

C8_Preferred == {CallOptions.preferredColors[i] : i \in DOMAIN CallOptions.preferredColors}

C8_ColorPreferenceBonus(items) ==
    IF C8_Preferred # {}
       /\ \E i \in DOMAIN items : C8_ColorColors(items[i]) \cap C8_Preferred # {}
    THEN Pct(10) ELSE 0

C8_WearSum(items) == SumSeq([i \in DOMAIN items |-> items[i].wearCount])

(* max(0, (10 - average wear count) / 10 * 0.1) *)
C8_FreshnessBonus(items) ==
    IF C8_WearSum(items) >= 10 * Len(items) THEN 0
    ELSE ((10 * Len(items) - C8_WearSum(items)) * Pct(1)) \div Len(items)

C8_FavoriteBonus(items) ==
    IF {i \in DOMAIN items : items[i].isFavorite} # {} THEN Pct(5) ELSE 0

(* 0.5 * styleScore + 0.4 * colorHarmony + the three bonuses *)
C8_Unclamped(o) ==
    (5 * o.styleScore + 4 * o.colorHarmony) \div 10
    + C8_ColorPreferenceBonus(o.items) + C8_FreshnessBonus(o.items)
    + C8_FavoriteBonus(o.items)

(* The scaled values are exact: no division above leaves a remainder *)
C8_Exact(o) ==
    /\ (5 * o.styleScore + 4 * o.colorHarmony) % 10 = 0
    /\ ((10 * Len(o.items) - C8_WearSum(o.items)) * Pct(1)) % Len(o.items) = 0

(* C8: for every scored outfit, confidence = min(1.0, 0.5 * styleScore +   *)
(* 0.4 * colorHarmony + colorPreferenceBonus + freshnessBonus +            *)
(* favoriteBonus), the bonuses being 0.1 iff a preferred colour is among   *)
(* an item's colours, max(0, (10 - average wear) / 10 * 0.1), and 0.05 iff *)
(* an item is a favourite.                                                 *)
C8_ConfidenceFormula ==
    Returned
    => \A k \in DOMAIN ranked :
          /\ C8_Exact(ranked[k])
          /\ ranked[k].confidence = Min(Pct(100), C8_Unclamped(ranked[k]))

(* A scored outfit below the clamp that earns each bonus, its preferred    *)
(* colour only among the listed colours and only some items favourites     *)
C8_Witness ==
    /\ RecommendReturned
    /\ \E k \in DOMAIN ranked :
          /\ C8_ColorPreferenceBonus(ranked[k].items) > 0
          /\ \A i \in DOMAIN ranked[k].items :
                ranked[k].items[i].primaryColor \notin C8_Preferred
          /\ C8_FavoriteBonus(ranked[k].items) > 0
          /\ \E i \in DOMAIN ranked[k].items : ~ ranked[k].items[i].isFavorite
          /\ C8_FreshnessBonus(ranked[k].items) > 0
          /\ C8_Unclamped(ranked[k]) < Pct(100)

(* C9: confidence, styleScore and colorHarmony of every returned           *)
(* recommendation lie in [0, 1], and the confidence is exactly 1.0 when    *)
(* base plus bonuses exceeds 1.0.                                          *)
C9_ScoresInUnitInterval ==
    Returned
    => \A r \in DOMAIN result :
          /\ 0 <= result[r].confidence /\ result[r].confidence <= Pct(100)
          /\ 0 <= result[r].styleScore /\ result[r].styleScore <= Pct(100)
          /\ 0 <= result[r].colorHarmony /\ result[r].colorHarmony <= Pct(100)
          /\ C8_Unclamped(result[r]) > Pct(100) => result[r].confidence = Pct(100)

(* A returned outfit whose base plus bonuses exceeds 1.0 *)
C9_Witness ==
    /\ RecommendReturned
    /\ \E r \in DOMAIN result :
          /\ C8_Unclamped(result[r]) > Pct(100)
          /\ result[r].confidence = Pct(100)
          /\ \A i \in DOMAIN result[r].items :
                result[r].items[i].wearCount >= 0

----------------------------------------------------------------------------
(* Claims checked under SpecCap *)

(* The usable items of a category, in wardrobe order *)
C6_Available(category) ==
    SelectSeq(wardrobe, LAMBDA item : Usable(item) /\ item.category = category)

(* The item is in a combination some skeleton generated *)
C6_Participates(item) ==
    \E k \in DOMAIN generated :
        \E c \in DOMAIN generated[k] :
            \E i \in DOMAIN generated[k][c] : generated[k][c][i] = item

C6_SevenTops ==
    /\ RecommendReturned
    /\ Len(C6_Available("tops")) = 7
    /\ Len(C6_Available("bottoms")) >= 1
    /\ Len(C6_Available("shoes")) >= 1

(* C6: with 7 tops, and at least one bottom and one pair of shoes in any   *)
(* numbers, each of the first 5 tops is in at least one generated          *)
(* combination and the 6th and 7th are in none.                            *)
C6_FirstFiveTopsParticipate ==
    C6_SevenTops
    => /\ \A k \in 1..5 : C6_Participates(C6_Available("tops")[k])
       /\ \A k \in 6..7 : ~ C6_Participates(C6_Available("tops")[k])

(* C6 as amended: the 6th and 7th tops are in no generated combination,    *)
(* each of the first 4 is in at least one, and the 5th is in one exactly   *)
(* when fewer than 5 bottoms or fewer than 5 pairs of shoes are available: *)
(* with 5 or more of both, 4 tops fill the 100 combinations of a skeleton. *)
C6_FirstFiveUnlessCapped ==
    C6_SevenTops
    => /\ \A k \in 1..4 : C6_Participates(C6_Available("tops")[k])
       /\ C6_Participates(C6_Available("tops")[5])
             <=> \/ Len(C6_Available("bottoms")) < 5
                 \/ Len(C6_Available("shoes")) < 5
       /\ \A k \in 6..7 : ~ C6_Participates(C6_Available("tops")[k])

(* 7 tops, 5 or more bottoms and shoes: the 5th top is left out *)
C6_Witness ==
    /\ C6_SevenTops
    /\ Len(C6_Available("bottoms")) >= 5
    /\ Len(C6_Available("shoes")) >= 5
    /\ C6_Participates(C6_Available("tops")[4])
    /\ ~ C6_Participates(C6_Available("tops")[5])

----------------------------------------------------------------------------
(* Claims checked under SpecIds: the number of results *)

(* The candidates that are the first of the sorted list with their id set *)
C11_Firsts ==
    {k \in DOMAIN ranked :
        \A j \in 1..(k - 1) : IdsOf(ranked[j].items) # IdsOf(ranked[k].items)}

(* The sorted candidate list with one entry, the first, for every id set *)
C11_Deduplicated ==
    [n \in 1..Cardinality(C11_Firsts) |->
        ranked[CHOOSE k \in C11_Firsts :
                   Cardinality({j \in C11_Firsts : j < k}) = n - 1]]

(* C11: the result is the first min(maxRecommendations, D) entries of the  *)
(* sorted, de-duplicated candidate list, D being the number of different   *)
(* id sets among the combinations that survive the include filter.         *)
C11_FirstOfDeduplicated ==
    Returned
    => LET D == Cardinality({IdsOf(ranked[k].items) : k \in DOMAIN ranked})
           n == Min(CallOptions.maxRecommendations, D)
       IN  /\ Len(result) = n
           /\ result = SubSeq(C11_Deduplicated, 1, n)

----------------------------------------------------------------------------
(* Claims checked under Spec: the exclusion and the seasonal filter *)

(* C12: no returned recommendation has an item whose id is in the          *)
(* excludeItemIds of the call.                                             *)
C12_NoExcludedItem ==
    Returned
    => \A r \in DOMAIN result : \A i \in DOMAIN result[r].items :
          ~ Includes(CallOptions.excludeItemIds, result[r].items[i].id)

(* An excluded item of the wardrobe that a skeleton could have used, in a  *)
(* call that still returned recommendations                                *)
C12_Witness ==
    /\ RecommendReturned
    /\ Len(result) > 0
    /\ \E k \in DOMAIN wardrobe :
          /\ Includes(options.excludeItemIds, wardrobe[k].id)
          /\ wardrobe[k].category = "shoes"

(* C13: when a season is given, every item of every returned               *)
(* recommendation has that season or 'all-season' in its season set; when  *)
(* none is given, every wardrobe item that is not excluded and belongs to  *)
(* a required category of a skeleton all of whose required categories have *)
(* such an item is in a combination generated for that skeleton.           *)
C13_SeasonalFilter ==
    Returned
    => /\ CallOptions.season # NoSeason
          => \A r \in DOMAIN result : \A i \in DOMAIN result[r].items :
                \/ Includes(result[r].items[i].season, CallOptions.season)
                \/ Includes(result[r].items[i].season, "all-season")
       /\ CallOptions.season = NoSeason
          => \A s \in DOMAIN OUTFIT_COMBINATIONS :
                LET required == OUTFIT_COMBINATIONS[s].required
                    kept == SelectSeq(wardrobe, LAMBDA item :
                               ~ Includes(CallOptions.excludeItemIds, item.id))
                IN  (\A c \in DOMAIN required :
                        \E k \in DOMAIN kept : kept[k].category = required[c])
                    => \A k \in DOMAIN kept :
                          Includes(required, kept[k].category)
                          => \E g \in DOMAIN generated[s] :
                                Includes(generated[s][g], kept[k])

(* A season was given, the wardrobe has an item out of season, and         *)
(* recommendations of in-season items were returned                        *)
C13_Witness ==
    /\ RecommendReturned
    /\ options.season # NoSeason
    /\ Len(result) > 0
    /\ \E k \in DOMAIN wardrobe :
          /\ ~ Includes(wardrobe[k].season, options.season)
          /\ ~ Includes(wardrobe[k].season, "all-season")
          /\ wardrobe[k].category \in {"tops", "bottoms", "shoes"}
          /\ ~ Includes(options.excludeItemIds, wardrobe[k].id)

----------------------------------------------------------------------------
(* The scoring functions, called on an outfit: wardrobe holds the items of *)
(* the call and result the number returned                                 *)

(* calculateColorHarmony(item1, item2) *)
PairHarmony ==
    /\ pc = "ready"
    /\ Len(wardrobe) = 2
    /\ result' = calculateColorHarmony(wardrobe[1], wardrobe[2])
    /\ call' = [fn |-> "calculateColorHarmony", maxSuggestions |-> 0]
    /\ pc' = "done"
    /\ UNCHANGED <<wardrobe, occasion, options, now, generated, ranked>>

(* calculateOutfitColorHarmony(items) *)
OutfitHarmony ==
    /\ pc = "ready"
    /\ result' = calculateOutfitColorHarmony(wardrobe)
    /\ call' = [fn |-> "calculateOutfitColorHarmony", maxSuggestions |-> 0]
    /\ pc' = "done"
    /\ UNCHANGED <<wardrobe, occasion, options, now, generated, ranked>>

(* calculateStyleScore(items, occasion) *)
StyleScore ==
    /\ pc = "ready"
    /\ result' = calculateStyleScore(wardrobe, occasion)
    /\ call' = [fn |-> "calculateStyleScore", maxSuggestions |-> 0]
    /\ pc' = "done"
    /\ UNCHANGED <<wardrobe, occasion, options, now, generated, ranked>>

NextScoring == PairHarmony \/ OutfitHarmony \/ StyleScore \/ Recommend

(* The most items of an outfit handed to a scoring function *)
MaxOutfit == 3

(* A color family set with pairs that score differently in each direction *)
FewColors == {"black", "white", "navy", "beige", "red", "green"}

(* A style tag that no occasion lists *)
OtherStyle == "vintage"

(* The categories of the items of an outfit of n items, in skeleton order *)
OutfitCategories(n) ==
    IF n = 2 THEN OUTFIT_COMBINATIONS[2].required
    ELSE IF n = 3 THEN OUTFIT_COMBINATIONS[1].required
    ELSE IF n = 4 THEN OUTFIT_COMBINATIONS[3].required
    ELSE [k \in 1..n |-> "accessories"]

(* The outfit whose k-th item has the k-th color and the k-th style *)
Outfit(colors, styles) ==
    [k \in DOMAIN colors |->
        Item(LabelId(105, k), OutfitCategories(Len(colors))[k], colors[k],
             <<colors[k]>>, styles[k], <<"all-season">>, k, FALSE, 0)]

Reverse(list) == [k \in DOMAIN list |-> list[Len(list) + 1 - k]]

(* Outfits of every pair of color families and of few colors beyond that,  *)
(* in skeleton order and in the opposite order                             *)
ColorOutfits ==
    LET lists == [1..2 -> ColorFamily] \cup SeqsUpTo(FewColors, MaxOutfit)
        outfits == {Outfit(c, [k \in DOMAIN c |-> "casual"]) : c \in lists}
    IN  outfits \cup {Reverse(o) : o \in outfits}

StyleOutfits ==
    {Outfit([k \in DOMAIN s |-> "black"], s) :
        s \in SeqsUpTo(StyleType \cup {OtherStyle}, MaxOutfit)}

InitScoring ==
    \/ Ready(ColorOutfits, {"casual"}, {DefaultOptions}, {10})
    \/ Ready(StyleOutfits, Occasion, {DefaultOptions}, {10})

SpecScoring == InitScoring /\ [][NextScoring]_vars

----------------------------------------------------------------------------
(* Claims checked under SpecScoring *)

(* The function of the call has returned *)
Called(fn) == pc = "done" /\ call.fn = fn

(* The score the claims give a pair of color families, in hundredths *)
C14_PairHarmony(a, b) ==
    IF a = b THEN 100
    ELSE IF \E k \in DOMAIN COLOR_HARMONY_MATRIX[a].complementary :
               COLOR_HARMONY_MATRIX[a].complementary[k] = b THEN 95
    ELSE IF \E k \in DOMAIN COLOR_HARMONY_MATRIX[a].compatible :
               COLOR_HARMONY_MATRIX[a].compatible[k] = b THEN 80
    ELSE IF \E k \in DOMAIN COLOR_HARMONY_MATRIX[a].avoid :
               COLOR_HARMONY_MATRIX[a].avoid[k] = b THEN 20
    ELSE 60

(* C14: over the 14 color families calculateColorHarmony returns 1.0 for   *)
(* equal colors, else 0.95, 0.8 or 0.2 for a second color in the first     *)
(* color's complementary, compatible or avoid list, and 0.6 for one in     *)
(* none of them; (black, white) gives 0.95 and (red, red) gives 1.0.       *)
C14_PairHarmonyByProfile ==
    Called("calculateColorHarmony")
    => LET a == wardrobe[1].primaryColor
           b == wardrobe[2].primaryColor
       IN  /\ result * 100 = C14_PairHarmony(a, b) * Scale
           /\ a = "black" /\ b = "white" => result * 100 = 95 * Scale
           /\ a = "red" /\ b = "red" => result = Scale

(* A color in no list of the first color's profile *)
C14_Witness ==
    /\ Called("calculateColorHarmony")
    /\ wardrobe[1].primaryColor = "black"
    /\ wardrobe[2].primaryColor = "navy"
    /\ result * 100 = 60 * Scale

RECURSIVE C15_PairSum(_, _)
(* The sum of the pair scores of the claims over a set of index pairs *)
C15_PairSum(items, pairs) ==
    IF pairs = {} THEN 0
    ELSE LET p == CHOOSE q \in pairs : TRUE
         IN  C14_PairHarmony(items[p[1]].primaryColor, items[p[2]].primaryColor)
                + C15_PairSum(items, pairs \ {p})

(* The index pairs i < j of a list *)
C15_Pairs(items) == {p \in (DOMAIN items) \X (DOMAIN items) : p[1] < p[2]}

(* harmony is the mean of the pair scores of items, or 1.0 below 2 items *)
C15_IsMean(harmony, items) ==
    IF Len(items) < 2 THEN harmony = Scale
    ELSE harmony * 100 * Cardinality(C15_Pairs(items))
            = C15_PairSum(items, C15_Pairs(items)) * Scale

(* C15: calculateOutfitColorHarmony returns 1.0 for fewer than 2 items and *)
(* else the mean over the index pairs i < j of the pair score looked up in *)
(* the profile of item i; a returned recommendation lists its items in the *)
(* order of its skeleton's categories and has that mean as colorHarmony.   *)
C15_OutfitHarmonyIsMean ==
    /\ Called("calculateOutfitColorHarmony") => C15_IsMean(result, wardrobe)
    /\ Called("recommend")
       => \A r \in DOMAIN result :
             /\ C15_IsMean(result[r].colorHarmony, result[r].items)
             /\ \E s \in DOMAIN OUTFIT_COMBINATIONS :
                   [k \in DOMAIN result[r].items |-> result[r].items[k].category]
                      = OUTFIT_COMBINATIONS[s].required

(* Three items whose pairs score differently in the other direction *)
C15_Witness ==
    /\ Called("calculateOutfitColorHarmony")
    /\ Len(wardrobe) = 3
    /\ \E p \in C15_Pairs(wardrobe) :
          C14_PairHarmony(wardrobe[p[1]].primaryColor, wardrobe[p[2]].primaryColor)
             # C14_PairHarmony(wardrobe[p[2]].primaryColor, wardrobe[p[1]].primaryColor)
    /\ result # Scale

(* The wardrobe with the colors of its first two items exchanged *)
C16_Swapped ==
    [k \in DOMAIN wardrobe |->
        IF k \in {1, 2}
        THEN [wardrobe[k] EXCEPT !.primaryColor = wardrobe[3 - k].primaryColor,
                                 !.colors = wardrobe[3 - k].colors]
        ELSE wardrobe[k]]

(* What recommend returns for the wardrobe with the two colors exchanged *)
C16_OfSwapped == generateOutfitRecommendations(C16_Swapped, occasion, options)

(* The colors of the first two items of the call *)
C16_Colors == <<wardrobe[1].primaryColor, wardrobe[2].primaryColor>>

(* C16: the pair score depends on the direction: (navy, black) scores 0.2  *)
(* from navy's profile and (black, navy) 0.6 from black's, (white, black)  *)
(* scores 0.95 from white's profile, and an outfit of a dress and shoes in *)
(* two colors whose pair scores differ by direction gets another           *)
(* colorHarmony and another confidence with the two colors exchanged.      *)
C16_Directional ==
    /\ Called("calculateColorHarmony")
       => /\ C16_Colors = <<"navy", "black">> => result * 100 = 20 * Scale
          /\ C16_Colors = <<"black", "navy">> => result * 100 = 60 * Scale
          /\ C16_Colors = <<"white", "black">> => result * 100 = 95 * Scale
    /\ /\ Called("recommend")
       /\ Len(wardrobe) = 2
       /\ Len(result) = 1
       /\ C14_PairHarmony(C16_Colors[1], C16_Colors[2])
             # C14_PairHarmony(C16_Colors[2], C16_Colors[1])
       => /\ Len(C16_OfSwapped) = 1
          /\ C16_OfSwapped[1].colorHarmony # result[1].colorHarmony
          /\ C16_OfSwapped[1].confidence # result[1].confidence

(* A navy dress with black shoes scores 0.2, a black dress with navy       *)
(* shoes 0.6                                                               *)
C16_Witness ==
    /\ Called("recommend")
    /\ Len(wardrobe) = 2
    /\ wardrobe[1].category = "dresses"
    /\ C16_Colors = <<"navy", "black">>
    /\ Len(result) = 1
    /\ result[1].colorHarmony * 100 = 20 * Scale
    /\ C16_OfSwapped[1].colorHarmony * 100 = 60 * Scale
    /\ C16_OfSwapped[1].confidence > result[1].confidence

(* The score the claims give a style for an occasion, in hundredths *)
C17_ItemScore(style, occ) ==
    IF \E k \in DOMAIN OCCASION_STYLE_MAP[occ].preferred :
          OCCASION_STYLE_MAP[occ].preferred[k] = style THEN 100
    ELSE IF \E k \in DOMAIN OCCASION_STYLE_MAP[occ].acceptable :
          OCCASION_STYLE_MAP[occ].acceptable[k] = style THEN 70
    ELSE IF \E k \in DOMAIN OCCASION_STYLE_MAP[occ].avoid :
          OCCASION_STYLE_MAP[occ].avoid[k] = style THEN 20
    ELSE 50

RECURSIVE C17_ScoreSum(_, _)
(* The sum of the scores of the claims over the items *)
C17_ScoreSum(items, occ) ==
    IF items = <<>> THEN 0
    ELSE C17_ItemScore(Head(items).style, occ) + C17_ScoreSum(Tail(items), occ)

(* score is the mean of the item scores, or 0 without items *)
C17_IsMean(score, items, occ) ==
    IF Len(items) = 0 THEN score = 0
    ELSE score * 100 * Len(items) = C17_ScoreSum(items, occ) * Scale

(* C17: calculateStyleScore returns the mean over the items of 1.0 for a   *)
(* style the occasion prefers, 0.7 for one it accepts, 0.2 for one it      *)
(* avoids and 0.5 for any other, and 0 for no items; a returned            *)
(* recommendation has that mean of its items as styleScore.                *)
C17_StyleScoreIsMean ==
    /\ Called("calculateStyleScore") => C17_IsMean(result, wardrobe, occasion)
    /\ Called("recommend")
       => \A r \in DOMAIN result :
             C17_IsMean(result[r].styleScore, result[r].items, occasion)

(* Three items: a preferred, an accepted and an unlisted style *)
C17_Witness ==
    /\ Called("calculateStyleScore")
    /\ Len(wardrobe) = 3
    /\ {C17_ItemScore(wardrobe[k].style, occasion) : k \in 1..3} = {100, 70, 50}
    /\ result * 100 * 3 = (100 + 70 + 50) * Scale

----------------------------------------------------------------------------
(* The wardrobe of a white business favorite top, a navy business bottom   *)
(* and a pair of black casual shoes, in every order and with wear counts,  *)
(* seasons and dates of its items varying                                  *)

ScenarioTop(v) ==
    Item(IdT1, "tops", "white", <<"white">>, "business", v.season, v.wearCount, TRUE, 0)

ScenarioBottom(v) ==
    Item(IdB1, "bottoms", "navy", <<"navy">>, "business", <<"all-season">>,
         v.wearCount, v.isFavorite, v.dateAdded)

ScenarioShoes(v) ==
    Item(IdS1, "shoes", "black", <<"black">>, "casual", v.season, 0, FALSE, v.dateAdded)

ScenarioVariants ==
    [season : {<<"all-season">>, <<"summer">>}, wearCount : {0, HighWear},
     isFavorite : BOOLEAN, dateAdded : {0, 9}]

(* The orders of three items *)
Orders == {p \in [1..3 -> 1..3] : \A i, j \in 1..3 : p[i] = p[j] => i = j}

ScenarioWardrobes ==
    {[k \in 1..3 |-> <<ScenarioTop(t), ScenarioBottom(b), ScenarioShoes(s)>>[p[k]]] :
        t \in ScenarioVariants, b \in ScenarioVariants, s \in {v \in ScenarioVariants :
            v.wearCount = 0 /\ ~ v.isFavorite}, p \in Orders}

InitScenario == Ready(ScenarioWardrobes, {"work"}, {DefaultOptions}, {10})

SpecScenario == InitScenario /\ [][Next]_vars

(* Claims checked under SpecScenario *)

(* C18: for that wardrobe and occasion 'work' recommend returns one        *)
(* recommendation, of the top, the bottom and the shoes, with styleScore   *)
(* (1.0 + 1.0 + 0.7) / 3 = 0.9, colorHarmony the mean of the pair scores   *)
(* of (white, navy), (white, black) and (navy, black), and a reasoning     *)
(* that begins 'Perfect work styling'.                                     *)
C18_Scenario ==
    RecommendReturned
    => /\ Len(result) = 1
       /\ [k \in 1..Len(result[1].items) |-> result[1].items[k].id]
             = <<IdT1, IdB1, IdS1>>
       /\ \A k \in DOMAIN result[1].items :
             \E w \in DOMAIN wardrobe : wardrobe[w] = result[1].items[k]
       /\ result[1].styleScore * 100 * 3 = (100 + 100 + 70) * Scale
       /\ result[1].colorHarmony * 100 * 3
             = (C14_PairHarmony("white", "navy") + C14_PairHarmony("white", "black")
                  + C14_PairHarmony("navy", "black")) * Scale
       /\ SubSeq(result[1].reasoning, 1, Len("Perfect work styling"))
             = "Perfect work styling"

(* The wardrobe lists the shoes first and the one recommendation is there *)
C18_Witness ==
    /\ RecommendReturned
    /\ wardrobe[1].category = "shoes"
    /\ Len(result) = 1
    /\ result[1].styleScore * 100 = 90 * Scale
    /\ result[1].colorHarmony * 100 = 70 * Scale

----------------------------------------------------------------------------
(* Wardrobes of a dress and shoes that differ in what the priority weighs: *)
(* wear count, favorite, and the days since the item was added             *)

(* The most pairs of shoes of such a wardrobe *)
MaxQuickShoes == 2

(* now is day 10: added on day 4 is 6 days ago, on day 3 is 7 days ago *)
QuickVariants ==
    [wearCount : {0, 4, 8}, isFavorite : BOOLEAN, dateAdded : {0, 3, 4}]

QuickShoes(n, v) ==
    Item(LabelId(115, n), "shoes", "black", <<"black">>, "casual", <<"all-season">>,
         v.wearCount, v.isFavorite, v.dateAdded)

QuickDress ==
    Item(IdD1, "dresses", "red", <<"red">>, "elegant", <<"all-season">>, 2, FALSE, 0)

QuickWardrobes ==
    {[k \in 1..Len(vs) |-> QuickShoes(k, vs[k])] \o <<QuickDress>> :
        vs \in SeqsUpTo(QuickVariants, MaxQuickShoes)}

InitQuick == Ready(QuickWardrobes, {"date"}, {DefaultOptions}, {10})

SpecQuick == InitQuick /\ [][Next]_vars

----------------------------------------------------------------------------
(* Claims checked under SpecQuick *)

(* The priority the claims give an item *)
C19_Priority(item) ==
    (10 - item.wearCount) + (IF now - item.dateAdded < 7 THEN 5 ELSE 0)
        + (IF item.isFavorite THEN 3 ELSE 0)

(* The wardrobe before the call in the order of descending priority, items *)
(* of equal priority in their order before the call                        *)
C19_Reordered ==
    LET n == Len(wardrobe)
        order == CHOOSE p \in [1..n -> 1..n] :
                    /\ \A i, j \in 1..n : p[i] = p[j] => i = j
                    /\ \A k \in 1..(n - 1) :
                          \/ C19_Priority(wardrobe[p[k]]) > C19_Priority(wardrobe[p[k + 1]])
                          \/ /\ C19_Priority(wardrobe[p[k]]) = C19_Priority(wardrobe[p[k + 1]])
                             /\ p[k] < p[k + 1]
    IN  [k \in 1..n |-> wardrobe[order[k]]]

(* The options of the claims for a call with maxSuggestions *)
C19_Options(maxSuggestions) ==
    [season |-> NoSeason, preferredColors |-> <<>>, excludeItemIds |-> <<>>,
     includeItemIds |-> <<>>, maxRecommendations |-> maxSuggestions]

(* C19: getQuickOutfitSuggestions returns what recommend returns for the   *)
(* wardrobe reordered by descending priority, equal priorities in their    *)
(* original order, with maxRecommendations = maxSuggestions and no other   *)
(* option; the combinations are generated from the reordered wardrobe.     *)
C19_QuickIsRecommendOfReordered ==
    [][call'.fn = "quick"
        => /\ result' = generateOutfitRecommendations(C19_Reordered, occasion,
                            C19_Options(call'.maxSuggestions))
           /\ generated' = generatedCombinations(C19_Reordered,
                              C19_Options(call'.maxSuggestions))]_vars

(* getQuickOutfitSuggestions returned a recommendation, and left the       *)
(* wardrobe with the second pair of shoes, a favorite, before the first    *)
C19_Witness ==
    /\ pc = "done"
    /\ call.fn = "quick"
    /\ call.maxSuggestions = 1
    /\ Len(result) = 1
    /\ \E i, j \in DOMAIN wardrobe :
          /\ i < j
          /\ wardrobe[i].id = LabelId(115, 2)
          /\ wardrobe[i].isFavorite
          /\ wardrobe[j].id = LabelId(115, 1)
          /\ wardrobe[i].wearCount >= wardrobe[j].wearCount

----------------------------------------------------------------------------
(* Wardrobes over all categories whose items share ids across categories *)

(* The most items of such a wardrobe *)
MaxShared == 4

SharedIdItems ==
    << Item(IdA, "tops", "white", <<"white">>, "business", <<"all-season">>, 0, FALSE, 0),
       Item(IdC, "tops", "blue", <<"blue">>, "casual", <<"all-season">>, 1, FALSE, 0),
       Item(IdA, "bottoms", "navy", <<"navy">>, "business", <<"all-season">>, 2, FALSE, 0),
       Item(IdC, "bottoms", "black", <<"black">>, "casual", <<"all-season">>, 0, TRUE, 0),
       Item(IdA, "shoes", "black", <<"black">>, "casual", <<"all-season">>, 3, FALSE, 0),
       Item(IdAB, "shoes", "brown", <<"brown">>, "elegant", <<"all-season">>, 0, FALSE, 0),
       Item(IdC, "dresses", "red", <<"red">>, "elegant", <<"all-season">>, 1, FALSE, 0),
       Item(IdAB, "dresses", "pink", <<"pink">>, "trendy", <<"all-season">>, 0, FALSE, 0),
       Item(IdC, "outerwear", "beige", <<"beige">>, "trendy", <<"all-season">>, 2, FALSE, 0),
       Item(IdBC, "outerwear", "gray", <<"gray">>, "business", <<"all-season">>, 0, FALSE, 0),
       Item(IdA, "accessories", "multi", <<"multi">>, "trendy", <<"all-season">>, 0, TRUE, 0),
       Item(IdBC, "accessories", "black", <<"black">>, "elegant", <<"all-season">>, 0, FALSE, 0) >>

InitShared == Ready(SubSeqs(SharedIdItems, MaxShared), {"work"}, {DefaultOptions}, {10})

SpecShared == InitShared /\ [][Next]_vars

(* Claims checked under SpecShared *)

(* C20: every returned recommendation has, for one of the three skeletons, *)
(* exactly one wardrobe item of each required category of the skeleton, in *)
(* their order, and no other item: 2 to 4 items, none an accessory; the    *)
(* ids of its items differ pairwise.                                       *)
C20_OneItemPerRequiredCategory ==
    Returned
    => \A r \in DOMAIN result :
          LET items == result[r].items
          IN  /\ \E s \in DOMAIN OUTFIT_COMBINATIONS :
                    [k \in DOMAIN items |-> items[k].category]
                       = OUTFIT_COMBINATIONS[s].required
              /\ \A k \in DOMAIN items :
                    /\ \E w \in DOMAIN wardrobe : wardrobe[w] = items[k]
                    /\ items[k].category # "accessories"
              /\ Len(items) \in 2..4
              /\ \A j, k \in DOMAIN items : j # k => items[j].id # items[k].id

(* The wardrobe has a top and a bottom of one id, and an outfit of three   *)
(* items was returned                                                      *)
C20_Witness ==
    /\ RecommendReturned
    /\ \E t \in DOMAIN wardrobe :
          /\ wardrobe[t].category = "tops"
          /\ \E b \in DOMAIN wardrobe :
                wardrobe[b].category = "bottoms" /\ wardrobe[b].id = wardrobe[t].id
    /\ Len(result) > 0
    /\ Len(result[1].items) = 3

----------------------------------------------------------------------------
(* Claims checked under SpecCap: the limits of the generator *)

(* The items of a category that the call may use, in wardrobe order *)
C21_Available(category) ==
    SelectSeq(wardrobe, LAMBDA item :
        /\ item.category = category
        /\ ~ Includes(CallOptions.excludeItemIds, item.id)
        /\ \/ CallOptions.season = NoSeason
           \/ Includes(item.season, CallOptions.season)
           \/ Includes(item.season, "all-season"))

(* C21: every skeleton yields at most 100 combinations, made of items that *)
(* are among the first 5 available items of their category, and at most    *)
(* 300 combinations are scored.                                            *)
C21_BoundedWork ==
    Returned
    => /\ \A s \in DOMAIN generated :
             /\ Len(generated[s]) <= 100
             /\ \A c \in DOMAIN generated[s] : \A i \in DOMAIN generated[s][c] :
                   LET item == generated[s][c][i]
                   IN  \E k \in 1..5 :
                          /\ k <= Len(C21_Available(item.category))
                          /\ C21_Available(item.category)[k] = item
       /\ Len(ranked) <= 300

(* 5 x 5 x 5 combinations of the first skeleton are possible and 100 are   *)
(* generated; the call returned                                            *)
C21_Witness ==
    /\ RecommendReturned
    /\ Len(C21_Available("tops")) > 5
    /\ Len(C21_Available("bottoms")) >= 5
    /\ Len(C21_Available("shoes")) >= 5
    /\ Len(generated[1]) = 100
    /\ Len(generated[3]) = 100
    /\ Len(ranked) = 200
    /\ Len(result) = 10

----------------------------------------------------------------------------
(* Claims checked under Spec: skeletons with a category that has no item *)

(* The wardrobe without the items of the categories skeleton s does not    *)
(* require                                                                 *)
C22_OnlyRequired(s) ==
    SelectSeq(wardrobe, LAMBDA item :
        Includes(OUTFIT_COMBINATIONS[s].required, item.category))

(* Every required category of skeleton s has an available item *)
C22_Satisfied(s) ==
    \A c \in DOMAIN OUTFIT_COMBINATIONS[s].required :
        Len(C21_Available(OUTFIT_COMBINATIONS[s].required[c])) > 0

(* C22: a skeleton with a required category that has no available item    *)
(* yields no combination; any other skeleton yields combinations, the same *)
(* as for the wardrobe of the items of its required categories alone.      *)
C22_MissingCategorySkipsSkeleton ==
    Returned
    => \A s \in DOMAIN OUTFIT_COMBINATIONS :
          IF C22_Satisfied(s)
          THEN /\ Len(generated[s]) > 0
               /\ generated[s] = generatedCombinations(C22_OnlyRequired(s), CallOptions)[s]
          ELSE generated[s] = <<>>

(* Dresses and shoes but no tops: outfits of a dress and shoes are         *)
(* returned, and bottoms are there for the skeletons that are skipped      *)
C22_Witness ==
    /\ RecommendReturned
    /\ Len(C21_Available("tops")) = 0
    /\ Len(C21_Available("bottoms")) > 0
    /\ Len(generated[1]) = 0
    /\ Len(generated[3]) = 0
    /\ Len(generated[2]) > 0
    /\ Len(result) > 0
    /\ result[1].items[1].category = "dresses"

----------------------------------------------------------------------------
(* Claims checked under SpecScore: the weight of a skeleton *)

(* Weights to give a skeleton, in hundredths *)
C23_Weights == {0, 50, 90, 100}

(* What generateCombinations returns for skeleton s given the weight w *)
C23_Reweighted(s, w) ==
    generateCombinations(groupItemsByCategory(availableItems(wardrobe, CallOptions)),
                         [OUTFIT_COMBINATIONS[s] EXCEPT !.weight = Pct(w)],
                         MaxCombinations)

(* C23: the weight of a skeleton changes nothing: with any other weight    *)
(* the skeleton yields the same combinations, and the confidence of an     *)
(* outfit of every skeleton, the one with outerwear and weight 0.9         *)
(* included, is min(1.0, 0.5 * styleScore + 0.4 * colorHarmony + bonuses)  *)
(* without a factor.                                                       *)
C23_WeightUnused ==
    Returned
    => /\ \A s \in DOMAIN OUTFIT_COMBINATIONS : \A w \in C23_Weights :
             C23_Reweighted(s, w) = generated[s]
       /\ \A k \in DOMAIN ranked :
             LET unweighted == Min(Pct(100), C8_Unclamped(ranked[k]))
             IN  /\ ranked[k].confidence = unweighted
                 /\ Len(ranked[k].items) = 4 /\ unweighted > 0
                    => ranked[k].confidence * 10 # unweighted * 9

(* An outfit with outerwear ranked before the outfit of its top, bottom    *)
(* and shoes, which a factor of 0.9 would have put behind it               *)
C23_Witness ==
    /\ RecommendReturned
    /\ Len(result) = 2
    /\ Len(result[1].items) = 4
    /\ Len(result[2].items) = 3
    /\ result[1].confidence > result[2].confidence
    /\ result[1].confidence * 9 < result[2].confidence * 10

----------------------------------------------------------------------------
(* Claims checked under SpecCap: the order of equal confidences *)

(* The skeleton whose required categories are those of the items *)
C24_Skeleton(items) ==
    CHOOSE s \in DOMAIN OUTFIT_COMBINATIONS :
        [k \in DOMAIN items |-> items[k].category] = OUTFIT_COMBINATIONS[s].required

(* The position of the item in the list of its category *)
C24_Position(item) ==
    CHOOSE k \in DOMAIN C21_Available(item.category) :
        C21_Available(item.category)[k] = item

(* The skeleton of an outfit, then the positions of its items *)
C24_Key(items) ==
    <<C24_Skeleton(items)>> \o [k \in DOMAIN items |-> C24_Position(items[k])]

(* Lexicographic order of two keys *)
C24_KeyLess(a, b) ==
    \E k \in (DOMAIN a) \cap (DOMAIN b) :
        /\ a[k] < b[k]
        /\ \A j \in 1..(k - 1) : a[j] = b[j]

(* C24: of two returned recommendations with the same confidence the one   *)
(* generated first comes first: the one of the earlier skeleton, and in    *)
(* one skeleton the one whose items' positions in their category lists are *)
(* first in lexicographic order, the first required category counting      *)
(* most.                                                                   *)
C24_TiesInGenerationOrder ==
    Returned
    => \A r1, r2 \in DOMAIN result :
          r1 < r2 /\ result[r1].confidence = result[r2].confidence
          => C24_KeyLess(C24_Key(result[r1].items), C24_Key(result[r2].items))

(* Equal confidences within a skeleton and across two skeletons *)
C24_Witness ==
    /\ Returned
    /\ \E r1, r2 \in DOMAIN result :
          /\ r1 < r2
          /\ result[r1].confidence = result[r2].confidence
          /\ C24_Skeleton(result[r1].items) = C24_Skeleton(result[r2].items)
    /\ \E r1, r2 \in DOMAIN result :
          /\ r1 < r2
          /\ result[r1].confidence = result[r2].confidence
          /\ C24_Skeleton(result[r1].items) # C24_Skeleton(result[r2].items)

----------------------------------------------------------------------------
(* Claims checked under Spec: the reasoning text *)

(* The four clauses of a recommendation in their fixed order, each with *)
(* the condition under which it applies                                 *)
C25_Clauses(r) ==
    LET favorites == Cardinality({i \in DOMAIN r.items : r.items[i].isFavorite})
        unworn == Cardinality({i \in DOMAIN r.items : r.items[i].wearCount = 0})
    IN  << [applies |-> r.styleScore * 100 >= 60 * Scale,
            text |-> IF r.styleScore * 100 >= 80 * Scale
                     THEN "Perfect " \o r.occasion \o " styling with well-coordinated pieces"
                     ELSE "Good fit for " \o r.occasion \o " with versatile styling"],
           [applies |-> r.colorHarmony * 100 >= 70 * Scale,
            text |-> IF r.colorHarmony * 100 >= 85 * Scale
                     THEN "Excellent color coordination"
                     ELSE "Good color harmony"],
           [applies |-> favorites > 0,
            text |-> "Includes " \o ToString(favorites) \o " of your favorite pieces"],
           [applies |-> unworn > 0,
            text |-> "Features " \o ToString(unworn) \o " fresh pieces from your wardrobe"] >>

(* The clauses that apply *)
C25_Applying(r) ==
    SelectSeq(C25_Clauses(r), LAMBDA clause : clause.applies)

(* The clauses that apply, each followed by a period and all but the *)
(* last also by a space                                               *)
C25_Text(r) ==
    LET clauses == C25_Applying(r)
        sentence(k) == IF k <= Len(clauses)
                       THEN (IF k > 1 THEN " " ELSE "") \o clauses[k].text \o "."
                       ELSE ""
    IN  sentence(1) \o sentence(2) \o sentence(3) \o sentence(4)

C25_Fallback == "Solid outfit combination for the occasion."

(* C25: the reasoning of every scored outfit consists of the clauses that *)
(* apply, in the order style tier, color tier, favorites count, unworn    *)
(* count, joined by ". " and ended with "."; it is the literal "Solid     *)
(* outfit combination for the occasion." exactly when styleScore < 0.6,   *)
(* colorHarmony < 0.7, no item is a favorite and no item has wearCount 0. *)
C25_ReasoningIsClausesInOrder ==
    Returned
    => \A k \in DOMAIN ranked :
          LET r == ranked[k]
          IN  /\ C25_Applying(r) # <<>> => r.reasoning = C25_Text(r)
              /\ r.reasoning = C25_Fallback
                 <=> /\ r.styleScore * 100 < 60 * Scale
                     /\ r.colorHarmony * 100 < 70 * Scale
                     /\ \A i \in DOMAIN r.items :
                           ~ r.items[i].isFavorite /\ r.items[i].wearCount # 0

(* One call returns an outfit to which no clause applies and scores an *)
(* outfit to which the style clause applies                            *)
C25_Witness ==
    /\ Returned
    /\ \E k \in DOMAIN ranked : C25_Clauses(ranked[k])[1].applies
    /\ \E j \in DOMAIN result : result[j].reasoning = C25_Fallback

----------------------------------------------------------------------------
(* Wardrobes whose tops compete for the places the generator enumerates *)

MaxSlotTops == 7

(* The n-th top, worn in summer only *)
SummerTop(n) == [Labeled(116, "tops", n) EXCEPT !.season = <<"summer">>]

(* tops tops, the summer-th of them (if any) worn in summer only, then a  *)
(* bottom and a pair of shoes                                             *)
SlotWardrobes ==
    {[k \in 1..tops |-> IF k = summer THEN SummerTop(k) ELSE Labeled(116, "tops", k)]
        \o LabeledList(98, "bottoms", 1) \o LabeledList(115, "shoes", 1) :
        tops \in MaxItemsPerCategory..MaxSlotTops, summer \in 0..MaxSlotTops}

SlotOptions ==
    {[DefaultOptions EXCEPT !.season = s, !.excludeItemIds = e, !.includeItemIds = i] :
        s \in {NoSeason, "winter"},
        e \in {<<>>} \cup {<<LabelId(116, k)>> : k \in 1..3},
        i \in {<<>>} \cup {<<LabelId(116, k)>> : k \in {2, MaxSlotTops - 1, MaxSlotTops}}}

InitSlots == Ready(SlotWardrobes, {"work"}, SlotOptions, {10})

SpecSlots == InitSlots /\ [][Next]_vars

----------------------------------------------------------------------------
(* Claims checked under SpecSlots *)

(* The items that combinations of skeleton s have at place c *)
C26_Enumerated(s, c) == {generated[s][n][c] : n \in DOMAIN generated[s]}

(* The first five available items of a category, in wardrobe order *)
C26_FirstFive(category) ==
    {C21_Available(category)[k] :
        k \in 1..Min(Len(C21_Available(category)), MaxItemsPerCategory)}

(* C26: exclusion and season filtering come before partitioning and       *)
(* capping: the items of a category in the generated combinations are     *)
(* among the first 5, in wardrobe order, of the items that remain after   *)
(* both filters, and are all of them when the skeleton has an item for    *)
(* each required category and stays below 100 combinations; an excluded   *)
(* or out-of-season item is in no combination.                            *)
C26_FiltersBeforeCap ==
    Returned
    => \A s \in DOMAIN generated :
          \A c \in DOMAIN OUTFIT_COMBINATIONS[s].required :
              LET category == OUTFIT_COMBINATIONS[s].required[c]
              IN  /\ C26_Enumerated(s, c) \subseteq C26_FirstFive(category)
                  /\ C22_Satisfied(s) /\ Len(generated[s]) < MaxCombinations
                     => C26_Enumerated(s, c) = C26_FirstFive(category)
                  /\ \A item \in C26_Enumerated(s, c) :
                        /\ ~ Includes(CallOptions.excludeItemIds, item.id)
                        /\ \/ CallOptions.season = NoSeason
                           \/ Includes(item.season, CallOptions.season)
                           \/ Includes(item.season, "all-season")

(* Of the first five tops of the wardrobe one is excluded and another out  *)
(* of season, and the sixth and the seventh top take their places          *)
C26_Witness ==
    /\ RecommendReturned
    /\ Len(wardrobe) >= 7
    /\ \A k \in 1..7 : wardrobe[k].category = "tops"
    /\ \E k \in 1..MaxItemsPerCategory :
          Includes(options.excludeItemIds, wardrobe[k].id)
    /\ options.season = "winter"
    /\ \E k \in 1..MaxItemsPerCategory : wardrobe[k].season = <<"summer">>
    /\ C26_Enumerated(1, 1)
         = {wardrobe[k] : k \in 1..7} \ {item \in {wardrobe[k] : k \in 1..7} :
               \/ Includes(options.excludeItemIds, item.id)
               \/ item.season = <<"summer">>}
    /\ Cardinality(C26_Enumerated(1, 1)) = MaxItemsPerCategory


(* Place of an item in the list of the available items of its category, 0 *)
(* when it is not available                                               *)
C27_Place(item) ==
    LET list == C21_Available(item.category)
    IN  IF \E k \in DOMAIN list : list[k] = item
        THEN CHOOSE k \in DOMAIN list : list[k] = item
        ELSE 0

(* includeItemIds names a wardrobe item that is available and comes after *)
(* the first 5 available items of its category                            *)
C27_IncludesItemBeyondCap ==
    \E i \in DOMAIN wardrobe :
        /\ Includes(options.includeItemIds, wardrobe[i].id)
        /\ C27_Place(wardrobe[i]) > MaxItemsPerCategory

(* Whether the available items can form skeleton s with item in it *)
C27_CanForm(s, item) ==
    /\ Includes(OUTFIT_COMBINATIONS[s].required, item.category)
    /\ C22_Satisfied(s)

(* The generated combinations of all skeletons *)
C27_Generated ==
    UNION {{generated[s][n] : n \in DOMAIN generated[s]} : s \in DOMAIN generated}

(* C27: the include filter comes after the cap of 5 per category: if      *)
(* includeItemIds names a wardrobe item that lies after the first 5       *)
(* available items of its category, recommend returns the empty list,     *)
(* even though the available items form outfits with that item; the       *)
(* outfits scored are the generated combinations, already capped, that    *)
(* have the ids of all the included wardrobe items.                       *)
C27_IncludeBeyondCapReturnsNothing ==
    RecommendReturned
    => /\ C27_IncludesItemBeyondCap => result = <<>>
       /\ {ranked[k].items : k \in DOMAIN ranked}
            = {combo \in C27_Generated :
                 \/ options.includeItemIds = <<>>
                 \/ \A i \in DOMAIN wardrobe :
                        Includes(options.includeItemIds, wardrobe[i].id)
                        => wardrobe[i].id \in IdsOf(combo)}

(* The included top is the sixth available top, a bottom and shoes are    *)
(* available to go with it, and combinations of other tops were generated *)
C27_Witness ==
    /\ RecommendReturned
    /\ \E i \in DOMAIN wardrobe :
          /\ options.includeItemIds = <<wardrobe[i].id>>
          /\ C27_Place(wardrobe[i]) = MaxItemsPerCategory + 1
          /\ C27_CanForm(1, wardrobe[i])
    /\ Len(generated[1]) = MaxItemsPerCategory
    /\ result = <<>>


(* The item is in the wardrobe but the filters remove it *)
C28_Excluded(item) == Includes(options.excludeItemIds, item.id)

C28_OutOfSeason(item) ==
    /\ options.season # NoSeason
    /\ ~ Includes(item.season, options.season)
    /\ ~ Includes(item.season, "all-season")

(* C28: the required items are looked up in the unfiltered wardrobe: if   *)
(* includeItemIds names an item of the wardrobe that is also listed in    *)
(* excludeItemIds or that the season filter removes, recommend returns    *)
(* the empty list.                                                        *)
C28_IncludeOfFilteredItemReturnsNothing ==
    RecommendReturned
    => \A i \in DOMAIN wardrobe :
          /\ Includes(options.includeItemIds, wardrobe[i].id)
          /\ C28_Excluded(wardrobe[i]) \/ C28_OutOfSeason(wardrobe[i])
          => result = <<>>

(* The included top is out of season and not excluded, and combinations   *)
(* of the other tops were generated                                       *)
C28_Witness ==
    /\ RecommendReturned
    /\ \E i \in DOMAIN wardrobe :
          /\ options.includeItemIds = <<wardrobe[i].id>>
          /\ C28_OutOfSeason(wardrobe[i])
          /\ ~ C28_Excluded(wardrobe[i])
    /\ Len(generated[1]) > 0
    /\ result = <<>>

----------------------------------------------------------------------------
(* Wardrobes of distinct ids with items for all three skeletons *)

MaxKind == 2

KindWardrobes ==
    {LabeledList(116, "tops", t) \o LabeledList(98, "bottoms", b)
        \o LabeledList(115, "shoes", sh) \o LabeledList(111, "outerwear", o)
        \o LabeledList(100, "dresses", d) :
        t \in 0..MaxKind, b \in 0..MaxKind, sh \in 1..MaxKind,
        o \in 0..MaxKind, d \in 0..MaxKind}

InitKinds == Ready(KindWardrobes, {"work"}, {DefaultOptions}, {10})

SpecKinds == InitKinds /\ [][Next]_vars

(* Claims checked under SpecKinds *)

(* The places of the generated combinations: skeleton and index *)
C29_Places ==
    UNION {{<<s, n>> : n \in DOMAIN generated[s]} : s \in DOMAIN generated}

C29_DistinctIds ==
    \A i, j \in DOMAIN wardrobe : i # j => wardrobe[i].id # wardrobe[j].id

(* C29: when the ids of the wardrobe's items differ pairwise, the          *)
(* combinations generated for the three skeletons have pairwise different  *)
(* sets of item ids: every candidate is a different outfit.                *)
C29_CandidatesDiffer ==
    Returned /\ C29_DistinctIds
    => \A p, q \in C29_Places :
          p # q => IdsOf(generated[p[1]][p[2]]) # IdsOf(generated[q[1]][q[2]])

(* A wardrobe of distinct ids with several combinations of each skeleton *)
C29_Witness ==
    /\ Returned
    /\ C29_DistinctIds
    /\ \A s \in DOMAIN generated : Len(generated[s]) >= 2

----------------------------------------------------------------------------
(* Claims checked under SpecScoring: the range of the style score *)

(* The buckets of an occasion that list the style *)
C30_BucketsOf(style, occ) ==
    {bucket \in {"preferred", "acceptable", "avoid"} :
        \E k \in DOMAIN OCCASION_STYLE_MAP[occ][bucket] :
            OCCASION_STYLE_MAP[occ][bucket][k] = style}

(* Every item has one of the five style tags *)
C30_Valid(items) == \A k \in DOMAIN items : items[k].style \in StyleType

(* C30: for each of the five occasions the preferred, acceptable and avoid *)
(* buckets partition the five style tags: every style is in exactly one    *)
(* bucket.  So no item with a style tag scores the neutral 0.5, and the    *)
(* styleScore of a non-empty outfit of such items lies in [0.2, 1.0].      *)
C30_BucketsPartitionStyles ==
    /\ DOMAIN OCCASION_STYLE_MAP = Occasion
    /\ \A occ \in Occasion : \A style \in StyleType :
          Cardinality(C30_BucketsOf(style, occ)) = 1
    /\ Called("calculateStyleScore") /\ wardrobe # <<>> /\ C30_Valid(wardrobe)
       => /\ 20 * Scale <= result * 100 /\ result * 100 <= 100 * Scale
          /\ Len(wardrobe) = 1 => result * 100 \in {100 * Scale, 70 * Scale, 20 * Scale}
    /\ Called("recommend")
       => \A r \in DOMAIN result :
             C30_Valid(result[r].items)
             => /\ 20 * Scale <= result[r].styleScore * 100
                /\ result[r].styleScore * 100 <= 100 * Scale

(* An outfit of three items whose styles the occasion avoids: the least    *)
(* style score                                                             *)
C30_Witness ==
    /\ Called("calculateStyleScore")
    /\ Len(wardrobe) = MaxOutfit
    /\ C30_Valid(wardrobe)
    /\ \A k \in DOMAIN wardrobe :
          C30_BucketsOf(wardrobe[k].style, occasion) = {"avoid"}
    /\ result * 100 = 20 * Scale

====
